---- MODULE Spec2Model ----
(***************************************************************************)
(* Model of src/main.cpp: the thomas::shop / thomas::network graph store,  *)
(* the lookup-or-create edge insertion written out in main, and            *)
(* thomas::network::reduce.                                                *)
(*                                                                         *)
(* A shop object lives in `heap`; a `shop *` is an index into `heap`.      *)
(* `shops` is the std::map<uint64_t, shop *> of the network.               *)
(***************************************************************************)
EXTENDS Integers, Sequences, FiniteSets, TLC

VARIABLES pc, num_shops, num_roads, i, heap, shops, accepted, out, err

vars == <<pc, num_shops, num_roads, i, heap, shops, accepted, out, err>>

(***************************************************************************)
(* Bounds of the model and constants of the program.                       *)
(***************************************************************************)
\* number of edge lines the input file can hold
MaxLines == 4

MinShops == 2
MaxShops == 1000
MinRoads == 1
MaxRoads == 1000
MinShopId == 1
MaxShopId == 1000

\* values of argc, of the two header numbers and of the two numbers of an
\* edge line that the runs draw from
ArgcInputs == {1, 2, 3}
NumShopsInputs == {1, 2, 1001}
NumRoadsInputs == {0, 1, 1000, 1001}
ShopIdInputs == {0, 1, 2, 3, 1001}
RoadToInputs == {1, 2, 3, 1001}

(***************************************************************************)
(* thomas::shop and thomas::network                                        *)
(***************************************************************************)
\* shop::shop(identifier): a fresh object with no connections
shop(identifier) == [identifier |-> identifier, connected_shops |-> <<>>]

\* shop::get_identifier
get_identifier(h, p) == h[p].identifier

\* shop::get_connected_shops
get_connected_shops(h, p) == h[p].connected_shops

\* p->get_connected_shops().size()
size(h, p) == Len(h[p].connected_shops)

\* p->get_connected_shops().push_back(q)
push_back(h, p, q) ==
    [h EXCEPT ![p].connected_shops = Append(@, q)]

\* network::network(): the empty map
EmptyShops == [id \in {} |-> 0]

\* network::shop_at(i) throws std::out_of_range exactly when i is no key
has_shop(s, id) == id \in DOMAIN s

\* network::shop_at(i), for a key that is present
shop_at(s, id) == s[id]

\* network::register_shop: std::map::insert keeps an existing entry
register_shop(s, h, p) ==
    IF get_identifier(h, p) \in DOMAIN s
    THEN s
    ELSE [id \in DOMAIN s \cup {get_identifier(h, p)} |->
             IF id \in DOMAIN s THEN s[id] ELSE p]

(***************************************************************************)
(* main, lines 240-280: the body of the loop for a line that is kept.      *)
(* The result is the heap and the map after the line.                      *)
(***************************************************************************)
process_edge(h, s, shop_id, road_to) ==
    IF has_shop(s, shop_id)
    THEN LET sp == shop_at(s, shop_id) IN
         IF has_shop(s, road_to)
         THEN LET dest == shop_at(s, road_to)
                  h1 == push_back(h, dest, sp)
                  h2 == push_back(h1, sp, dest)
              IN  [heap |-> h2, shops |-> s]
         ELSE LET h0 == Append(h, shop(road_to))
                  new_dest == Len(h0)
                  h1 == push_back(h0, new_dest, sp)
                  h2 == push_back(h1, sp, new_dest)
              IN  [heap |-> h2, shops |-> register_shop(s, h2, new_dest)]
    ELSE LET hs == Append(h, shop(shop_id))
             new_shop == Len(hs)
         IN
         IF has_shop(s, road_to)
         THEN LET dest == shop_at(s, road_to)
                  h1 == push_back(hs, dest, new_shop)
                  h2 == push_back(h1, new_shop, dest)
              IN  [heap |-> h2, shops |-> register_shop(s, h2, new_shop)]
         ELSE LET h0 == Append(hs, shop(road_to))
                  new_dest == Len(h0)
                  h1 == push_back(h0, new_dest, new_shop)
                  h2 == push_back(h1, new_shop, new_dest)
                  s1 == register_shop(s, h2, new_dest)
              IN  [heap |-> h2, shops |-> register_shop(s1, h2, new_shop)]

\* the range test with its lower half left out
shop_id_above_range(shop_id) == shop_id > MaxShopId

\* main, line 235: the range test on the first number of an edge line
shop_id_out_of_range(shop_id) == shop_id < MinShopId \/ shop_id > MaxShopId

(***************************************************************************)
(* thomas::network::reduce                                                 *)
(***************************************************************************)
Min(S) == CHOOSE x \in S : \A y \in S : x <= y

\* lines 104-108: the mapped pointers in the key order of the std::map
RECURSIVE values_in_key_order(_)
values_in_key_order(s) ==
    IF DOMAIN s = {}
    THEN <<>>
    ELSE LET k == Min(DOMAIN s)
         IN  <<s[k]>> \o values_in_key_order([id \in DOMAIN s \ {k} |-> s[id]])

\* the comparator turned round: the sort is ascending
fewer_connections(h, lhs, rhs) == size(h, lhs) < size(h, rhs)

\* line 114: the comparator of the first sort
more_connections(h, lhs, rhs) == size(h, lhs) > size(h, rhs)

\* lines 111-115: std::sort with that comparator, as an insertion sort; the
\* order std::sort gives to shops of equal size is not used below, where only
\* front()'s size and the membership of the erased vector are read
RECURSIVE insert_shop(_, _, _)
insert_shop(h, sorted, p) ==
    IF sorted = <<>>
    THEN <<p>>
    ELSE IF more_connections(h, p, Head(sorted))
         THEN <<p>> \o sorted
         ELSE <<Head(sorted)>> \o insert_shop(h, Tail(sorted), p)

RECURSIVE sort_shops(_, _)
sort_shops(h, seq) ==
    IF seq = <<>>
    THEN <<>>
    ELSE insert_shop(h, sort_shops(h, Tail(seq)), Head(seq))

\* lines 122-126: erase(remove_if(size < threshold))
filter_shops(h, seq, threshold) ==
    SelectSeq(seq, LAMBDA el : ~(size(h, el) < threshold))

\* the membership test left out: every connection counts as external
always_external(linear_shops, each_connection) == TRUE

\* line 140: std::find over linear_shops compares shop pointers
is_external(linear_shops, each_connection) ==
    \A k \in 1..Len(linear_shops) : linear_shops[k] # each_connection

\* lines 136-143: the loop over the connections of one shop
RECURSIVE impact_from(_, _, _, _)
impact_from(h, linear_shops, connections, k) ==
    IF k > Len(connections)
    THEN 0
    ELSE (IF is_external(linear_shops, connections[k])
          THEN size(h, connections[k])
          ELSE 0)
         + impact_from(h, linear_shops, connections, k + 1)

\* lines 132-148: one impact entry per element of linear_shops, in its order
impacts_of(h, linear_shops) ==
    [k \in 1..Len(linear_shops) |->
        impact_from(h, linear_shops, get_connected_shops(h, linear_shops[k]), 1)]

\* lines 151-156: std::sort of the impacts, descending
RECURSIVE insert_impact(_, _)
insert_impact(sorted, e) ==
    IF sorted = <<>>
    THEN <<e>>
    ELSE IF e > Head(sorted)
         THEN <<e>> \o sorted
         ELSE <<Head(sorted)>> \o insert_impact(Tail(sorted), e)

RECURSIVE sort_impacts(_)
sort_impacts(seq) ==
    IF seq = <<>>
    THEN <<>>
    ELSE insert_impact(sort_impacts(Tail(seq)), Head(seq))

\* lines 161-165: erase(remove_if(impact < required_impact))
filter_impacts(seq, required_impact) ==
    SelectSeq(seq, LAMBDA el : ~(el < required_impact))

\* the test against 2 written as a test against 1
reduce_return_single(n) == IF n < 1 THEN 0 ELSE n

\* lines 167-172: the value returned for the number of impacts that remain
reduce_return(n) == IF n < 2 THEN 0 ELSE n

\* lines 99-126: linear_shops as it is when the impacts are computed
core_shops(h, s) ==
    LET sorted == sort_shops(h, values_in_key_order(s))
        threshold == size(h, Head(sorted))
    IN  filter_shops(h, sorted, threshold)

\* lines 98-173, for a map that is not empty
reduce(h, s) ==
    LET linear_shops == core_shops(h, s)
        impacts == sort_impacts(impacts_of(h, linear_shops))
        required_impact == Head(impacts)
    IN  reduce_return(Len(filter_impacts(impacts, required_impact)))

(***************************************************************************)
(* main                                                                    *)
(***************************************************************************)
Init ==
    /\ pc = "start"
    /\ num_shops = 0
    /\ num_roads = 0
    /\ i = 0
    /\ heap = <<>>
    /\ shops = EmptyShops
    /\ accepted = <<>>
    /\ out = <<>>
    /\ err = <<>>

\* std::terminate() after a message on std::cerr
Terminate(message) ==
    /\ pc' = "aborted"
    /\ err' = Append(err, message)
    /\ UNCHANGED <<num_shops, num_roads, i, heap, shops, accepted, out>>

\* lines 192-195
ArgumentError ==
    /\ pc = "start"
    /\ \E argc \in ArgcInputs : argc # 2
    /\ Terminate("argument error")

\* lines 199-202
IoError ==
    /\ pc = "start"
    /\ \E argc \in ArgcInputs : argc = 2
    /\ Terminate("io error")

\* lines 192-208: both tests pass and the header line is read
OpenFile ==
    /\ pc = "start"
    /\ \E argc \in ArgcInputs : argc = 2
    /\ pc' = "header"
    /\ UNCHANGED <<num_shops, num_roads, i, heap, shops, accepted, out, err>>

\* lines 210-213: sscanf does not find two numbers
HeaderParseError ==
    /\ pc = "header"
    /\ Terminate("parsing error")

\* lines 215-218
ShopsBoundsError ==
    /\ pc = "header"
    /\ \E ns \in NumShopsInputs :
          /\ ns < MinShops \/ ns > MaxShops
          /\ pc' = "aborted"
          /\ err' = Append(err, "argument error")
          /\ num_shops' = ns
    /\ \E nr \in NumRoadsInputs : num_roads' = nr
    /\ UNCHANGED <<i, heap, shops, accepted, out>>

\* lines 220-223
RoadsBoundsError ==
    /\ pc = "header"
    /\ \E ns \in NumShopsInputs, nr \in NumRoadsInputs :
          /\ ~(ns < MinShops \/ ns > MaxShops)
          /\ nr < MinRoads \/ nr > MaxRoads
          /\ pc' = "aborted"
          /\ err' = Append(err, "argument error")
          /\ num_shops' = ns
          /\ num_roads' = nr
    /\ UNCHANGED <<i, heap, shops, accepted, out>>

\* lines 210-227: the header passes, the network is constructed, i = 0
HeaderAccepted ==
    /\ pc = "header"
    /\ \E ns \in NumShopsInputs, nr \in NumRoadsInputs :
          /\ ~(ns < MinShops \/ ns > MaxShops)
          /\ ~(nr < MinRoads \/ nr > MaxRoads)
          /\ num_shops' = ns
          /\ num_roads' = nr
    /\ pc' = "loop"
    /\ i' = 0
    /\ heap' = <<>>
    /\ shops' = EmptyShops
    /\ UNCHANGED <<accepted, out, err>>

\* line 227: the loop condition holds; the file has one more line to give
LineRead ==
    /\ pc = "loop"
    /\ i < num_roads
    /\ i < MaxLines

\* the unparsable line reported but passed over instead of terminating
EdgeParseErrorContinues ==
    /\ pc = "loop"
    /\ i < num_roads
    /\ i < MaxLines
    /\ err' = Append(err, "parsing error")
    /\ i' = i + 1
    /\ UNCHANGED <<pc, num_shops, num_roads, heap, shops, accepted, out>>

\* lines 230-233: the line does not hold two numbers
EdgeParseError ==
    /\ LineRead
    /\ Terminate("parsing error")

\* lines 235-238: warning, continue (the ++i of the for statement runs)
EdgeSkipped ==
    /\ LineRead
    /\ \E shop_id \in ShopIdInputs, road_to \in RoadToInputs :
          shop_id_out_of_range(shop_id)
    /\ err' = Append(err, "warning")
    /\ i' = i + 1
    /\ UNCHANGED <<pc, num_shops, num_roads, heap, shops, accepted, out>>

\* lines 240-280: the line is kept
EdgeAccepted ==
    /\ LineRead
    /\ \E shop_id \in ShopIdInputs, road_to \in RoadToInputs :
          /\ ~shop_id_out_of_range(shop_id)
          /\ LET r == process_edge(heap, shops, shop_id, road_to)
             IN  /\ heap' = r.heap
                 /\ shops' = r.shops
          /\ accepted' = Append(accepted, <<shop_id, road_to>>)
    /\ i' = i + 1
    /\ UNCHANGED <<pc, num_shops, num_roads, out, err>>

\* line 227: i reached num_roads, or getline found the end of the file
LoopExit ==
    /\ pc = "loop"
    /\ pc' = "reduce"
    /\ UNCHANGED <<num_shops, num_roads, i, heap, shops, accepted, out, err>>

\* reduce() erasing from the map itself instead of from its own vector
ReduceErasesInStore ==
    /\ pc = "reduce"
    /\ DOMAIN shops # {}
    /\ out' = Append(out, reduce(heap, shops))
    /\ shops' = [id \in {x \in DOMAIN shops :
                            \E k \in 1..Len(core_shops(heap, shops)) :
                                core_shops(heap, shops)[k] = shops[x]}
                    |-> shops[id]]
    /\ pc' = "done"
    /\ UNCHANGED <<num_shops, num_roads, i, heap, accepted, err>>

\* line 286 on a map that holds a shop: reduce() returns, the result is
\* printed; reduce() works on its own vectors and writes to no shop
Reduce ==
    /\ pc = "reduce"
    /\ DOMAIN shops # {}
    /\ out' = Append(out, reduce(heap, shops))
    /\ pc' = "done"
    /\ UNCHANGED <<num_shops, num_roads, i, heap, shops, accepted, err>>

\* line 286 on an empty map: line 117 takes front() of an empty vector, which
\* is undefined.  The read either faults, or yields some pointer whose size
\* is read; then both vectors stay empty and line 169 returns 0.
ReduceEmptyFault ==
    /\ pc = "reduce"
    /\ DOMAIN shops = {}
    /\ pc' = "crashed"
    /\ UNCHANGED <<num_shops, num_roads, i, heap, shops, accepted, out, err>>

ReduceEmptyReturn ==
    /\ pc = "reduce"
    /\ DOMAIN shops = {}
    /\ out' = Append(out, 0)
    /\ pc' = "done"
    /\ UNCHANGED <<num_shops, num_roads, i, heap, shops, accepted, err>>

Next ==
    \/ ArgumentError
    \/ IoError
    \/ OpenFile
    \/ HeaderParseError
    \/ ShopsBoundsError
    \/ RoadsBoundsError
    \/ HeaderAccepted
    \/ EdgeParseError
    \/ EdgeSkipped
    \/ EdgeAccepted
    \/ LoopExit
    \/ Reduce
    \/ ReduceEmptyFault
    \/ ReduceEmptyReturn

Spec == Init /\ [][Next]_vars

(***************************************************************************)
(* Definitions used to state the properties                                *)
(***************************************************************************)
Max(S) == CHOOSE x \in S : \A y \in S : x >= y

\* the shop objects the store holds
Stored(s) == {s[id] : id \in DOMAIN s}

Degree(h, v) == Len(h[v].connected_shops)

MaxDegree(h, s) == Max({Degree(h, v) : v \in Stored(s)})

Core(h, s) == {v \in Stored(s) : Degree(h, v) = MaxDegree(h, s)}

RECURSIVE SumOutside(_, _, _)
SumOutside(h, C, ws) ==
    IF ws = <<>>
    THEN 0
    ELSE (IF Head(ws) \in C THEN 0 ELSE Degree(h, Head(ws)))
         + SumOutside(h, C, Tail(ws))

Impact(h, s, v) == SumOutside(h, Core(h, s), h[v].connected_shops)

MaxImpact(h, s) == Max({Impact(h, s, v) : v \in Core(h, s)})

Winners(h, s) == {v \in Core(h, s) : Impact(h, s, v) = MaxImpact(h, s)}

Reference(h, s) ==
    IF Cardinality(Winners(h, s)) < 2 THEN 0 ELSE Cardinality(Winners(h, s))

\* the store holds a shop and the result of reduce() on it has been printed
Reduced == pc = "done" /\ DOMAIN shops # {}

\* C1: on every store that holds a shop, the value reduce() returned is the
\* value of the reference computation (maximum degree, Core, impact over the
\* neighbour occurrences outside Core, Winners; 0 if fewer than two Winners).
C1_ReduceIsReference ==
    Reduced => out = <<Reference(heap, shops)>>

\* a store of several Core shops whose impacts differ has been reduced
C1_Witness ==
    /\ Reduced
    /\ Cardinality(Core(heap, shops)) >= 2
    /\ Cardinality(Core(heap, shops)) < Cardinality(Stored(shops))
    /\ Cardinality(Winners(heap, shops)) < Cardinality(Core(heap, shops))
    /\ MaxImpact(heap, shops) > 0
    /\ Len(heap) = Cardinality(Stored(shops))
    /\ out = <<0>>

\* the store as the specified operations build it: identifier -> the sequence
\* of the identifiers of its neighbours
GetOrCreate(g, id) ==
    IF id \in DOMAIN g
    THEN g
    ELSE [x \in DOMAIN g \cup {id} |-> IF x \in DOMAIN g THEN g[x] ELSE <<>>]

AddEdge(g, u_id, v_id) ==
    LET g1 == GetOrCreate(g, u_id)
        g2 == GetOrCreate(g1, v_id)
        g3 == [g2 EXCEPT ![u_id] = Append(@, v_id)]
    IN  [g3 EXCEPT ![v_id] = Append(@, u_id)]

RECURSIVE AddEdges(_, _)
AddEdges(g, lines) ==
    IF lines = <<>>
    THEN g
    ELSE AddEdges(AddEdge(g, Head(lines)[1], Head(lines)[2]), Tail(lines))

\* the store main built, read the same way
IdView(h, s) ==
    [id \in DOMAIN s |->
        [k \in 1..Len(h[s[id]].connected_shops) |->
            h[h[s[id]].connected_shops[k]].identifier]]

\* C2: after any sequence of accepted edge lines the store built by main has
\* the identifiers, the neighbour identifier sequences and the degrees of the
\* store built by add_edge from the same lines.
C2_StoreIsAddEdgeStore ==
    IdView(heap, shops) = AddEdges(EmptyShops, accepted)

\* the objects in the heap that carry identifier id
ObjectsOf(h, id) == {p \in 1..Len(h) : h[p].identifier = id}

DegreeOfId(h, s, id) == IF id \in DOMAIN s THEN Degree(h, s[id]) ELSE 0

\* C3: a line whose two endpoints are the same identifier u raises the degree
\* of the stored shop u by exactly 2 and leaves exactly one object with
\* identifier u, whether or not u was stored before the line.
C3_SelfLoopAddsTwo ==
    [][\A u \in ShopIdInputs :
          accepted' = Append(accepted, <<u, u>>)
          => /\ u \in DOMAIN shops'
             /\ DegreeOfId(heap', shops', u) = DegreeOfId(heap, shops, u) + 2
             /\ Cardinality(ObjectsOf(heap', u)) = 1]_vars

\* C4: after every whole edge line, each reference in the neighbour sequence
\* of a stored shop is the object the store holds under that object's
\* identifier.
C4_NeighboursAreStored ==
    \A v \in Stored(shops) :
        \A k \in 1..Len(heap[v].connected_shops) :
            LET w == heap[v].connected_shops[k]
            IN  /\ heap[w].identifier \in DOMAIN shops
                /\ shops[heap[w].identifier] = w

\* C5: when main calls reduce() the store holds at least one shop.
C5_StoreNonEmptyAtReduce ==
    pc = "reduce" => DOMAIN shops # {}

\* C6: on every store that holds a shop the result of reduce() is 0 or at
\* least 2, never 1.
C6_NeverOne ==
    Reduced => /\ Len(out) = 1
               /\ out[1] = 0 \/ out[1] >= 2

\* a store with exactly one winner was reduced, and the result is 0
C6_Witness ==
    /\ Reduced
    /\ Cardinality(Winners(heap, shops)) = 1
    /\ out = <<0>>

\* the store main builds from the accepted lines alone
RECURSIVE StoreOf(_, _, _)
StoreOf(h, s, lines) ==
    IF lines = <<>>
    THEN <<h, s>>
    ELSE LET r == process_edge(h, s, Head(lines)[1], Head(lines)[2])
         IN  StoreOf(r.heap, r.shops, Tail(lines))

\* C7: a line whose first identifier is outside [1,1000] gives a warning,
\* leaves the heap and the map as they were and goes on to the next line; the
\* store is at every moment the one the kept lines alone produce.
C7_SkippedLineChangesNothing ==
    /\ [][err' = Append(err, "warning")
          => /\ heap' = heap
             /\ shops' = shops
             /\ pc = "loop" /\ pc' = "loop"
             /\ i' = i + 1]_vars
    /\ [](pc \in {"loop", "reduce", "done", "crashed"}
          => /\ StoreOf(<<>>, EmptyShops, accepted) = <<heap, shops>>
             /\ \A k \in 1..Len(accepted) :
                   accepted[k][1] \in MinShopId..MaxShopId)

\* a line was skipped and lines were kept, and the run went on to its result
C7_Witness ==
    /\ Reduced
    /\ err = <<"warning">>
    /\ Len(accepted) = 2
    /\ i = 3

FatalMessages == {"argument error", "io error", "parsing error"}

\* C8: the result line is printed at most once and only after the loop has
\* ended; after a fatal condition the process is aborted, stays aborted, and
\* no result line exists before or after.
C8_ResultOnlyAfterLoop ==
    /\ [](/\ Len(out) <= 1
          /\ out # <<>> => pc = "done"
          /\ (\E k \in 1..Len(err) : err[k] \in FatalMessages)
                => pc = "aborted" /\ out = <<>>)
    /\ [][pc = "aborted" => pc' = "aborted" /\ out' = out]_vars
    /\ [][out' # out => pc = "reduce" /\ pc' = "done"]_vars

\* an edge line failed to parse after a line had been kept: aborted, no result
C8_Witness ==
    /\ pc = "aborted"
    /\ Len(accepted) >= 1
    /\ err[Len(err)] = "parsing error"
    /\ out = <<>>

CoreIsClosed(h, s) ==
    \A v \in Core(h, s) :
        \A k \in 1..Len(h[v].connected_shops) :
            h[v].connected_shops[k] \in Core(h, s)

\* C10: neighbour occurrences that are Core shops add nothing to an impact,
\* and impact 0 counts for the tie: when every neighbour occurrence of every
\* Core shop is a Core shop, reduce() computes impact 0 for each Core shop and
\* returns |Core| if |Core| >= 2; a store built from one edge between two
\* distinct shops is reduced to 2.
C10_ClosedCoreTies ==
    /\ (Reduced /\ CoreIsClosed(heap, shops))
          => /\ \A k \in 1..Len(core_shops(heap, shops)) :
                    impacts_of(heap, core_shops(heap, shops))[k] = 0
             /\ Cardinality(Core(heap, shops)) >= 2
                    => out = <<Cardinality(Core(heap, shops))>>
    /\ (Reduced /\ Len(accepted) = 1 /\ accepted[1][1] # accepted[1][2])
          => /\ CoreIsClosed(heap, shops)
             /\ out = <<2>>

\* the store of the single edge 1-2 was reduced to 2
C10_Witness ==
    /\ Reduced
    /\ accepted = <<<<1, 2>>>>
    /\ CoreIsClosed(heap, shops)
    /\ out = <<2>>

====
